---- MODULE Spec2Model ----
(***************************************************************************)
(* Chat-session and diagnosis-trigger core of the personal-color chatbot.  *)
(*                                                                         *)
(* Client side: the ChatbotPage component (one instance per browser tab)   *)
(* with its React state, the closure of a running handleSendMessage, the   *)
(* ChatbotApi.analyze call with its session-closed retry, the diagnosis    *)
(* save call and the deferred (setTimeout) reset.                          *)
(* Server side: the session store and the report store behind              *)
(* /chatbot/start, /chatbot/analyze, /chatbot/end and /chatbot/report/save.*)
(***************************************************************************)
EXTENDS Integers, Sequences, FiniteSets, TLC

\* ------------------------------------------------------------------ bounds
MaxSessions == 3
MaxTurns == 2
MaxTurnsPair == 1
MaxInitTurns == 2
MaxTurnsOne == 6
MaxFiles == 2
MaxSubmissions == 2

\* ------------------------------------------------------- program constants
Threshold == 3

\* two browser tabs of the same user
Pages == {1, 2}
SessionIds == 1..MaxSessions
NoId == 0
NoInfluencer == "none"
Influencers == {NoInfluencer, "infl"}
Slots == {"send", "welcome"}

\* what the text area can hold: nothing, blanks, padded text
Inputs == {<<>>, <<" ">>, <<" ", "h", " ">>}

RECURSIVE TrimStart(_)
TrimStart(s) ==
  IF s = <<>> THEN s
  ELSE IF Head(s) = " " THEN TrimStart(Tail(s)) ELSE s

RECURSIVE TrimEnd(_)
TrimEnd(s) ==
  IF s = <<>> THEN s
  ELSE IF s[Len(s)] = " " THEN TrimEnd(SubSeq(s, 1, Len(s) - 1)) ELSE s

\* String.prototype.trim
trim(s) == TrimEnd(TrimStart(s))

Min(S) == CHOOSE x \in S : \A y \in S : x <= y

VARIABLES
  sessions,               \* server: session id -> session record
  reports,                \* server: sequence of report records, id = index
  page,                   \* tab: "absent" | "unopened" | "mounted" | "left"
  pageInfl,               \* the influencer the tab was opened with
  sessionStartedRef,
  startEffect,            \* position of the session-start effect
  currentHistoryId,
  userTurnCount,
  hasAutoReportGenerated,
  isTyping,
  messages,               \* messages.length: the number of bubbles shown
  api,                    \* ChatbotApi.analyze calls in flight, per slot
  send,                   \* closure of the running handleSendMessage
  diag,                   \* analyzeChatForDiagnosis call in flight
  timers,                 \* pending setTimeout(…, 1000) callbacks
  chatRes,                \* whether the latest bot bubble carries chat_res
  tally,                  \* history: what each tab has done so far
  budget,                 \* user messages still to be sent in this run
  activeInfluencerProfile,\* whether the router state carried a profile
  inflEffect,             \* position of the influencer-history effect
  item,                   \* a message item of the influencer history
  rag,                    \* RAGSystem.query: the request being answered
  survey                  \* the personal-color test: answers and results

serverVars == <<sessions, reports>>
pageVars == <<page, pageInfl, sessionStartedRef, startEffect, currentHistoryId,
              userTurnCount, hasAutoReportGenerated, isTyping,
              messages, api, send, diag, timers, chatRes>>
vars == <<sessions, reports, page, pageInfl, sessionStartedRef, startEffect,
          currentHistoryId, userTurnCount, hasAutoReportGenerated, isTyping,
          messages, api, send, diag, timers, chatRes, tally, budget,
          activeInfluencerProfile, inflEffect, item, rag, survey>>

\* what the chat page leaves alone
otherVars == <<activeInfluencerProfile, inflEffect, item, rag, survey>>

\* ------------------------------------------------------------ server side
NoSession == [status |-> "none", infl |-> NoInfluencer, user_turns |-> 0,
              items |-> 0]

OpenFor(infl) ==
  {i \in SessionIds : sessions[i].status = "open" /\ sessions[i].infl = infl}

FreeIds == {i \in SessionIds : sessions[i].status = "none"}

\* start(user, influencer): an open session of the pair is reused
CanStart(infl) == OpenFor(infl) # {} \/ FreeIds # {}

StartId_Fresh(infl) ==
  IF FreeIds # {} THEN Min(FreeIds) ELSE Min(OpenFor(infl))

StartId(infl) ==
  IF OpenFor(infl) # {} THEN Min(OpenFor(infl)) ELSE Min(FreeIds)

StartReused_Never(infl) == FALSE

StartReused(infl) == sessions[StartId(infl)].status = "open"

StartSessions(infl) ==
  IF StartReused(infl) THEN sessions
  ELSE [sessions EXCEPT ![StartId(infl)] =
          [NoSession EXCEPT !.status = "open", !.infl = infl]]

\* append_turn: user_turns counts only turns with non-empty user text
AppendTurn(ss, id, question) ==
  [ss EXCEPT ![id] =
     [@ EXCEPT !.user_turns = IF question # <<>> THEN @ + 1 ELSE @,
               !.items = @ + 1]]

CloseSession_Stamp(ss, id) ==
  [ss EXCEPT ![id] = [@ EXCEPT !.status = "closed", !.items = @ + 1]]

\* close: idempotent
CloseSession(ss, id) == [ss EXCEPT ![id] = [@ EXCEPT !.status = "closed"]]

\* reset_turn_counter
ResetTurnCounter(ss, id) == [ss EXCEPT ![id] = [@ EXCEPT !.user_turns = 0]]

ReportsOf(id) == {i \in 1..Len(reports) : reports[i].session = id}

\* the diagnosis cycle a session is in: one cycle per materialized report
CycleOf(id) == Cardinality(ReportsOf(id))

\* ---------------------------------------------------------- wire records
NoResp == [status |-> 0, closed |-> FALSE, history_id |-> NoId,
           chat_res |-> FALSE, reused |-> FALSE, user_turns |-> 0, cycle |-> 0]

\* posts, starts: the POSTs to /chatbot/analyze and the startSession calls
\* this analyze call has made
IdleApi == [pc |-> "idle", question |-> <<>>, history_id |-> NoId,
            err |-> NoResp, posts |-> 0, starts |-> 0]

IdleSend == [userTurnCount |-> 0, hasAutoReportGenerated |-> FALSE]

IdleDiag == [pc |-> "idle", history_id |-> NoId, cycle |-> 0]

IdleStart == [pc |-> "idle", history_id |-> NoId]

\* GET /chatbot/history/influencer/{id} answers with an array of message
\* items or with an object { history_ids, items }
NoPayload == [shape |-> "array", items |-> 0, history_ids |-> <<>>]

\* currentHistoryId: the value the effect closed over; payload: the
\* response on its way; seen: the tab's currentHistoryId when the effect's
\* continuation ran
IdleInfl == [pc |-> "idle", currentHistoryId |-> NoId, payload |-> NoPayload,
             seen |-> NoId]

\* turns: user turns answered; fires: trigger firings; attempts, commits:
\* diagnosis saves settled and committed; resets: deferred resets run;
\* plain: the tab got a fresh session before its first message, every message
\* was answered with a payload on the first POST, every save succeeded and no
\* message was sent while a deferred reset was pending; reclosed: the tab
\* left by ending a session that was already closed; status: the HTTP status
\* that settled the tab's latest message (0: no response); due: after a
\* start that reused a session with fewer than Threshold user turns, the
\* answered messages still missing to Threshold; windowed: "sent" once a
\* message was sent while a deferred reset was pending, "answered" once its
\* analyze resolved
NoTally == [turns |-> 0, fires |-> 0, attempts |-> 0, commits |-> 0,
            resets |-> 0, plain |-> TRUE, reclosed |-> FALSE, status |-> 0,
            due |-> 0, windowed |-> "no"]

\* ------------------------------------------------------------ RAG records
\* the four routes of the routing engine
RouteGeneral == 1
RouteImmutable == 2
RouteMutable == 3
RouteCombined == 4
Routes == {RouteGeneral, RouteImmutable, RouteMutable, RouteCombined}

HandlerOutcomes == {"ok", "raise"}

\* the stored metadata of the File Search store: naming a store that
\* exists, not matching the expected name format, or well-formed but naming
\* a store the backend no longer has
StoreStates == {"valid", "malformed", "stale"}

\* metadata of the two handlers; files_used may be missing
ImmutableMetas ==
  {[source |-> "file_search", route |-> RouteImmutable],
   [source |-> "file_search", route |-> RouteImmutable, files_used |-> 1]}

MutableMetas ==
  {[source |-> "trend"]}
    \cup {[source |-> "trend", files_used |-> n] : n \in 0..MaxFiles}

NoMeta == [source |-> "none"]

\* what a handler's query() returns: the answer text (here: whose it is)
NoAnswer == [answer |-> "none", metadata |-> NoMeta]

\* what RAGSystem.query returns or raises; answer: the sections of the text
NoResult == [kind |-> "none", answer |-> {}, metadata |-> NoMeta]

\* route: the router's classification; immutable, mutable: whether the
\* handler's query succeeds or fails during this request; immutable_meta,
\* mutable_meta: the metadata a successful query returns; invoked: the
\* handlers queried so far; store: the File Search store named by
\* file_search_store.json when the server starts; rebuilt: whether the
\* store was deleted and created anew
IdleRag == [pc |-> "idle", route |-> 1, immutable |-> "ok", mutable |-> "ok",
            store |-> "valid", rebuilt |-> FALSE,
            immutable_meta |-> NoMeta, mutable_meta |-> NoMeta,
            immutable_result |-> NoAnswer, mutable_result |-> NoAnswer,
            invoked |-> {}, result |-> NoResult]

\* --------------------------------------------------------- survey records
Seasons == {"spring", "summer", "autumn", "winter"}

\* an option of a question: its id and its score per season
Option(id, spring, summer, autumn, winter) ==
  [id |-> id,
   scores |-> [spring |-> spring, summer |-> summer, autumn |-> autumn,
               winter |-> winter]]

\* the question bank: question id -> its options
PERSONAL_COLOR_QUESTIONS == <<
  <<
      Option("opt_warm_undertone", 2, 0, 2, 0),
      Option("opt_cool_undertone", 0, 2, 0, 2),
      Option("opt_neutral_undertone", 1, 1, 1, 1)
   >>,
  <<
      Option("opt_light_skin", 2, 2, 0, 0),
      Option("opt_medium_skin", 1, 1, 2, 1),
      Option("opt_dark_skin", 0, 0, 1, 2)
   >>,
  <<
      Option("opt_hair_golden", 3, 0, 1, 0),
      Option("opt_hair_ashy", 0, 3, 0, 0),
      Option("opt_hair_deep_warm", 0, 0, 3, 0),
      Option("opt_hair_deep_cool", 0, 0, 0, 3)
   >>,
  <<
      Option("opt_eye_warm_light", 3, 0, 1, 0),
      Option("opt_eye_cool_soft", 0, 3, 0, 0),
      Option("opt_eye_warm_deep", 0, 0, 3, 0),
      Option("opt_eye_cool_clear", 0, 0, 0, 3)
   >>,
  <<
      Option("opt_vein_golden_green", 2, 0, 2, 0),
      Option("opt_vein_blue", 0, 2, 0, 2),
      Option("opt_vein_mixed", 1, 1, 1, 1)
   >>,
  <<
      Option("opt_complexion_healthy", 2, 1, 0, 0),
      Option("opt_complexion_rosy", 0, 2, 0, 1),
      Option("opt_complexion_muted", 0, 0, 2, 1)
   >>,
  <<
      Option("opt_metal_warm", 2, 0, 2, 0),
      Option("opt_metal_cool", 0, 2, 0, 2),
      Option("opt_metal_both", 1, 1, 1, 1)
   >>,
  <<
      Option("opt_white_pure", 0, 2, 0, 2),
      Option("opt_white_ivory", 2, 0, 2, 0),
      Option("opt_white_unsure", 1, 1, 1, 1)
   >>
>>

QuestionIds == 1..Len(PERSONAL_COLOR_QUESTIONS)

Options(q) ==
  {PERSONAL_COLOR_QUESTIONS[q][i] : i \in 1..Len(PERSONAL_COLOR_QUESTIONS[q])}

OptionIds(q) == {o.id : o \in Options(q)}

\* answers: question_id -> option_id; results: what each submission returned
IdleSurvey == [answers |-> <<>>, results |-> <<>>]

\* ---------------------------------------------- influencer message items
\* the strings a field can hold: empty (or missing), blank, or a text
Strs(c) == {<<>>, <<" ">>, <<c>>}

\* raw.influencer, when it is an object
NoInfl == [object |-> FALSE, styled_text |-> <<>>, description |-> <<>>,
           model_output |-> <<>>]

InflObjects ==
  [object : {TRUE}, styled_text : Strs("i"), description : Strs("e"),
   model_output : Strs("m")]

\* raw, when it is an object
NoRaw == [object |-> FALSE, influencer |-> NoInfl, styled_text |-> <<>>,
          description |-> <<>>]

RawObjects ==
  [object : {TRUE}, influencer : {NoInfl} \cup InflObjects,
   styled_text : Strs("s"), description : Strs("d")]

\* text: its characters and, for a legacy record whose text is JSON, what
\* JSON.parse makes of it
PlainTexts == [chars : Strs("t"), parsed : {NoRaw}]

JsonTexts == [chars : {<<"{">>}, parsed : {NoRaw} \cup RawObjects]

\* the items the server can send: with a raw object, or without one and
\* then possibly with JSON as text
RawItems ==
  [text : PlainTexts, raw : {NoRaw} \cup RawObjects]
    \cup [text : JsonTexts, raw : {NoRaw}]

IdleItem == [pc |-> "idle", text |-> [chars |-> <<>>, parsed |-> NoRaw],
             raw |-> NoRaw, out |-> <<>>]

\* ------------------------------------------------------------------- Init
\* the store as an earlier visit may have left it: no session, or session 1
\* still open (the tab was closed without ending it) after its welcome turn
\* and some user turns
EarlierSession(infl, n) ==
  [status |-> "open", infl |-> infl, user_turns |-> n, items |-> n + 1]

InitCommon ==
  /\ reports = <<>>
  /\ pageInfl \in [Pages -> Influencers]
  /\ pageInfl[2] \in {NoInfluencer, pageInfl[1]}
  /\ sessionStartedRef = [p \in Pages |-> FALSE]
  /\ startEffect = [p \in Pages |-> IdleStart]
  /\ currentHistoryId = [p \in Pages |-> NoId]
  /\ userTurnCount = [p \in Pages |-> 0]
  /\ hasAutoReportGenerated = [p \in Pages |-> FALSE]
  /\ isTyping = [p \in Pages |-> FALSE]
  /\ messages = [p \in Pages |-> 0]
  /\ api = [p \in Pages |-> [s \in Slots |-> IdleApi]]
  /\ send = [p \in Pages |-> IdleSend]
  /\ diag = [p \in Pages |-> IdleDiag]
  /\ timers = [p \in Pages |-> <<>>]
  /\ chatRes = [p \in Pages |-> FALSE]
  /\ tally = [p \in Pages |-> NoTally]
  /\ survey = IdleSurvey
  /\ inflEffect = [p \in Pages |-> IdleInfl]

\* the tabs are opened with ?infl_id=…, not with a profile in the router state
Init ==
  /\ InitCommon
  /\ activeInfluencerProfile = [p \in Pages |-> FALSE]
  /\ item = IdleItem
  /\ rag = IdleRag
  /\ \/ sessions = [i \in SessionIds |-> NoSession]
     \/ \E n \in 0..MaxInitTurns :
          sessions = [i \in SessionIds |->
                        IF i = 1 THEN EarlierSession(pageInfl[1], n)
                        ELSE NoSession]
  /\ page = [p \in Pages |-> "unopened"]
  /\ budget = MaxTurns

\* two tabs as in Init, with the sends of a short conversation
InitPair ==
  /\ InitCommon
  /\ activeInfluencerProfile = [p \in Pages |-> FALSE]
  /\ item = IdleItem
  /\ rag = IdleRag
  /\ \/ sessions = [i \in SessionIds |-> NoSession]
     \/ \E n \in 0..MaxInitTurns :
          sessions = [i \in SessionIds |->
                        IF i = 1 THEN EarlierSession(pageInfl[1], n)
                        ELSE NoSession]
  /\ page = [p \in Pages |-> "unopened"]
  /\ budget = MaxTurnsPair

\* a run with a single tab and a longer conversation
InitOne ==
  /\ InitCommon
  /\ activeInfluencerProfile = [p \in Pages |-> FALSE]
  /\ item = IdleItem
  /\ rag = IdleRag
  /\ sessions = [i \in SessionIds |-> NoSession]
  /\ page = [p \in Pages |-> IF p = 1 THEN "unopened" ELSE "absent"]
  /\ budget = MaxTurnsOne

\* ------------------------------------------------------------ client side
\* Every request is answered in one step: the server handles it and the
\* awaiting code runs on with the response.

\* a state setter of an unmounted component does nothing
SetState(f, p, v) == IF page[p] = "mounted" THEN [f EXCEPT ![p] = v] ELSE f

\* isTyping || isAnalyzing || isDiagnosing. isTyping covers a running
\* handleSendMessage from its first line to its finally block, so the analyze
\* mutation adds only the welcome request and the diagnosis mutation nothing.
isBusy(p) ==
  \/ isTyping[p]
  \/ api[p]["welcome"].pc # "idle"
  \/ diag[p].pc # "idle"

\* history items as getHistory renders them: a user and a bot bubble each
History(n) == 2 * n

\* the tab is opened: the session-start effect calls startSession(startWith)
\* and, with an active influencer profile, the influencer-history effect
\* calls fetchMessagesForInfluencer
MountPage(p) ==
  /\ UNCHANGED <<activeInfluencerProfile, item, rag, survey>>
  /\ inflEffect' = IF activeInfluencerProfile[p]
                   THEN [inflEffect EXCEPT ![p] =
                           [IdleInfl EXCEPT
                              !.pc = "get",
                              !.currentHistoryId = currentHistoryId[p]]]
                   ELSE inflEffect
  /\ page[p] = "unopened"
  /\ ~sessionStartedRef[p]
  /\ page' = [page EXCEPT ![p] = "mounted"]
  /\ sessionStartedRef' = [sessionStartedRef EXCEPT ![p] = TRUE]
  /\ startEffect' = [startEffect EXCEPT ![p] = [IdleStart EXCEPT !.pc = "start"]]
  /\ UNCHANGED <<sessions, reports, pageInfl, currentHistoryId, userTurnCount,
                 hasAutoReportGenerated, isTyping, messages, api,
                 send, diag, timers, chatRes, tally, budget>>

\* POST /chatbot/start as the server answers it
StartResp(infl, ok) ==
  IF ok
  THEN [NoResp EXCEPT !.status = 200,
                      !.history_id = StartId(infl),
                      !.reused = StartReused(infl),
                      !.user_turns = IF StartReused(infl)
                                     THEN sessions[StartId(infl)].user_turns
                                     ELSE 0]
  ELSE [NoResp EXCEPT !.status = 500]

\* startSession resolved or rejected inside the session-start effect
StartReturn(p, ok) ==
  /\ UNCHANGED otherVars
  /\ startEffect[p].pc = "start"
  /\ ok => CanStart(pageInfl[p])
  /\ sessions' = IF ok THEN StartSessions(pageInfl[p]) ELSE sessions
  /\ LET res == StartResp(pageInfl[p], ok) IN
     IF res.status # 200
     THEN /\ sessionStartedRef' = [sessionStartedRef EXCEPT ![p] = FALSE]
          /\ startEffect' = [startEffect EXCEPT ![p] = IdleStart]
          /\ UNCHANGED <<currentHistoryId, userTurnCount, api>>
     ELSE IF page[p] # "mounted"
     THEN /\ startEffect' = [startEffect EXCEPT ![p] = IdleStart]
          /\ UNCHANGED <<sessionStartedRef, currentHistoryId, userTurnCount, api>>
     ELSE /\ currentHistoryId' = [currentHistoryId EXCEPT ![p] = res.history_id]
          /\ userTurnCount' = IF res.reused
                              THEN [userTurnCount EXCEPT ![p] = res.user_turns]
                              ELSE userTurnCount
          /\ IF res.reused
             THEN /\ startEffect' = [startEffect EXCEPT ![p] =
                                       [pc |-> "history",
                                        history_id |-> res.history_id]]
                  /\ api' = api
             ELSE /\ startEffect' = [startEffect EXCEPT ![p] =
                                       [IdleStart EXCEPT !.pc = "welcome"]]
                  /\ api' = [api EXCEPT ![p]["welcome"] =
                               [IdleApi EXCEPT !.pc = "post", !.posts = 1,
                                               !.history_id = res.history_id]]
          /\ UNCHANGED sessionStartedRef
  /\ tally' = SetState(tally, p,
                        [tally[p] EXCEPT
                           !.plain = @ /\ ok /\ ~StartReused(pageInfl[p]),
                           !.due = LET res == StartResp(pageInfl[p], ok) IN
                                   IF res.reused /\ res.user_turns < Threshold
                                   THEN Threshold - res.user_turns
                                   ELSE @])
  /\ UNCHANGED <<reports, page, pageInfl, hasAutoReportGenerated, isTyping,
                 messages, send, diag, timers, chatRes, budget>>

\* getHistory(res.history_id) answered: the loaded items replace the bubbles
HistoryReturn(p, ok) ==
  /\ UNCHANGED otherVars
  /\ startEffect[p].pc = "history"
  /\ LET n == sessions[startEffect[p].history_id].items IN
     messages' = IF ok /\ n > 0 THEN SetState(messages, p, History(n))
                 ELSE messages
  /\ startEffect' = [startEffect EXCEPT ![p] = IdleStart]
  /\ UNCHANGED <<sessions, reports, page, pageInfl, sessionStartedRef,
                 currentHistoryId, userTurnCount, hasAutoReportGenerated,
                 isTyping, api, send, diag, timers, chatRes, tally, budget>>

\* the welcome analyze settled: its item, or a local fallback, is appended
WelcomeSettled(p) ==
  /\ messages' = SetState(messages, p, messages[p] + 1)
  /\ startEffect' = [startEffect EXCEPT ![p] = IdleStart]
  /\ api' = [api EXCEPT ![p]["welcome"] = IdleApi]
  /\ UNCHANGED <<currentHistoryId, userTurnCount, hasAutoReportGenerated,
                 isTyping, send, diag, chatRes, tally>>

\* ------------------------------------------------- handleSendMessage, start
BlankInput_NoTrim(inputMessage) == inputMessage = <<>>

\* !inputMessage.trim()
BlankInput(inputMessage) == trim(inputMessage) = <<>>

\* inputMessage is what the text area holds when send is pressed
handleSendMessage(p, inputMessage) ==
  /\ UNCHANGED otherVars
  /\ page[p] = "mounted"
  /\ IF BlankInput(inputMessage) \/ isBusy(p)
     THEN UNCHANGED vars
     ELSE /\ budget > 0
          /\ budget' = budget - 1
          /\ messages' = [messages EXCEPT ![p] = @ + 1]
          /\ isTyping' = [isTyping EXCEPT ![p] = TRUE]
          /\ send' = [send EXCEPT ![p] =
                        [userTurnCount |-> userTurnCount[p],
                         hasAutoReportGenerated |-> hasAutoReportGenerated[p]]]
          /\ api' = [api EXCEPT ![p]["send"] =
                       [IdleApi EXCEPT !.pc = "post", !.posts = 1,
                                       !.question = trim(inputMessage),
                                       !.history_id = currentHistoryId[p]]]
          /\ tally' = [tally EXCEPT
                          ![p].plain =
                             @ /\ currentHistoryId[p] # NoId /\ timers[p] = <<>>,
                          ![p].windowed =
                             IF timers[p] # <<>> THEN "sent" ELSE "no"]
          /\ UNCHANGED <<sessions, reports, page, pageInfl, sessionStartedRef,
                         startEffect, currentHistoryId, userTurnCount,
                         hasAutoReportGenerated, diag, timers, chatRes>>

\* ------------------------------------------------------ POST /chatbot/analyze
\* ok: appended, structured payload; nores: appended, payload missing;
\* fail: rejected, nothing appended; lost: appended, the response timed out
AnalyzeOutcomes == {"ok", "nores", "fail", "lost"}

\* the session a request without history_id is bound to
AnalyzeTarget(h) == IF h = NoId THEN StartId(NoInfluencer) ELSE h

AnalyzeBound(h) == IF h = NoId THEN StartSessions(NoInfluencer) ELSE sessions

AnalyzePossible(h, outcome) ==
  (outcome # "fail" /\ h = NoId) => CanStart(NoInfluencer)

AnalyzeSessions_AppendClosed(h, question, outcome) ==
  IF outcome = "fail" THEN sessions
  ELSE AppendTurn(AnalyzeBound(h), AnalyzeTarget(h), question)

AnalyzeSessions(h, question, outcome) ==
  IF outcome = "fail" THEN sessions
  ELSE IF AnalyzeBound(h)[AnalyzeTarget(h)].status # "open" THEN AnalyzeBound(h)
  ELSE AppendTurn(AnalyzeBound(h), AnalyzeTarget(h), question)

AnalyzeResp(h, outcome) ==
  IF outcome = "fail" THEN [NoResp EXCEPT !.status = 500]
  ELSE IF AnalyzeBound(h)[AnalyzeTarget(h)].status # "open"
  THEN [NoResp EXCEPT !.status = 400,
                      !.closed = AnalyzeBound(h)[AnalyzeTarget(h)].status = "closed"]
  ELSE IF outcome = "lost" THEN NoResp
  ELSE [NoResp EXCEPT !.status = 200,
                      !.history_id = AnalyzeTarget(h),
                      !.chat_res = outcome = "ok",
                      !.cycle = CycleOf(AnalyzeTarget(h))]

\* ------------------------------------------- handleSendMessage, continuation
TriggerFires_NoPayload(newTurnCount, generated, chat_res) ==
  newTurnCount = Threshold /\ ~generated

\* newTurnCount === 3 && !hasAutoReportGenerated && latestItem.chat_res
TriggerFires(newTurnCount, generated, chat_res) ==
  newTurnCount = Threshold /\ ~generated /\ chat_res

NewTurnCount_Same(closedOver) == closedOver

\* const newTurnCount = userTurnCount + 1, on the value the handler closed over
NewTurnCount(closedOver) == closedOver + 1

\* analyze resolved with response r
SendContinue(p, r) ==
  LET newTurnCount == NewTurnCount(send[p].userTurnCount)
      fires == TriggerFires(newTurnCount, send[p].hasAutoReportGenerated,
                            r.chat_res)
  IN
  /\ currentHistoryId' = SetState(currentHistoryId, p, r.history_id)
  /\ messages' = SetState(messages, p, messages[p] + 1)
  /\ userTurnCount' = SetState(userTurnCount, p, newTurnCount)
  /\ hasAutoReportGenerated' =
       IF fires THEN SetState(hasAutoReportGenerated, p, TRUE)
       ELSE hasAutoReportGenerated
  /\ diag' = IF fires
             THEN [diag EXCEPT ![p] = [pc |-> "post",
                                       history_id |-> r.history_id,
                                       cycle |-> r.cycle]]
             ELSE diag
  /\ isTyping' = IF fires THEN isTyping ELSE SetState(isTyping, p, FALSE)
  /\ chatRes' = SetState(chatRes, p, r.chat_res)
  /\ tally' = SetState(tally, p,
                        [tally[p] EXCEPT !.turns = @ + 1,
                                         !.fires = IF fires THEN @ + 1 ELSE @,
                                         !.plain = @ /\ r.chat_res,
                                         !.status = r.status,
                                         !.due = IF @ > 0 THEN @ - 1 ELSE @,
                                         !.windowed = IF @ = "sent"
                                                      THEN "answered" ELSE @])
  /\ send' = [send EXCEPT ![p] = IdleSend]
  /\ api' = [api EXCEPT ![p]["send"] = IdleApi]
  /\ UNCHANGED startEffect

SendCatch_Counts(p, error) ==
  /\ messages' = SetState(messages, p, messages[p] + 1)
  /\ isTyping' = SetState(isTyping, p, FALSE)
  /\ send' = [send EXCEPT ![p] = IdleSend]
  /\ api' = [api EXCEPT ![p]["send"] = IdleApi]
  /\ tally' = SetState(tally, p, [tally[p] EXCEPT !.plain = FALSE,
                                                  !.status = error.status,
                                                  !.windowed = "no"])
  /\ userTurnCount' =
       SetState(userTurnCount, p, NewTurnCount(send[p].userTurnCount))
  /\ UNCHANGED <<startEffect, currentHistoryId,
                 hasAutoReportGenerated, diag, chatRes>>

\* analyze rejected with error: the catch block shows an error bubble
SendCatch(p, error) ==
  /\ messages' = SetState(messages, p, messages[p] + 1)
  /\ isTyping' = SetState(isTyping, p, FALSE)
  /\ send' = [send EXCEPT ![p] = IdleSend]
  /\ api' = [api EXCEPT ![p]["send"] = IdleApi]
  /\ tally' = SetState(tally, p, [tally[p] EXCEPT !.plain = FALSE,
                                                  !.status = error.status,
                                                  !.windowed = "no"])
  /\ UNCHANGED <<startEffect, currentHistoryId, userTurnCount,
                 hasAutoReportGenerated, diag, chatRes>>

Resolve(p, slot, r) ==
  IF slot = "send" THEN SendContinue(p, r) ELSE WelcomeSettled(p)

Reject(p, slot, error) ==
  IF slot = "send" THEN SendCatch(p, error) ELSE WelcomeSettled(p)

\* ------------------------------------------------------ ChatbotApi.analyze
IsSessionClosed_AnyError(err) == err.status # 200

\* status === 400 && detail.includes('이미 종료된 세션')
IsSessionClosed(err) == err.status = 400 /\ err.closed

\* the first POST settled
AnalyzeReturn(p, slot, outcome) ==
  /\ UNCHANGED otherVars
  /\ api[p][slot].pc = "post"
  /\ LET a == api[p][slot]
         r == AnalyzeResp(a.history_id, outcome)
     IN
     /\ AnalyzePossible(a.history_id, outcome)
     /\ sessions' = AnalyzeSessions(a.history_id, a.question, outcome)
     /\ IF r.status = 200 THEN Resolve(p, slot, r)
        ELSE IF IsSessionClosed(r)
        THEN /\ api' = [api EXCEPT ![p][slot].pc = "start", ![p][slot].err = r,
                                 ![p][slot].starts = @ + 1]
             /\ tally' = SetState(tally, p, [tally[p] EXCEPT !.plain = FALSE])
             /\ UNCHANGED <<startEffect, currentHistoryId, userTurnCount,
                            hasAutoReportGenerated, isTyping, messages, send,
                            diag, chatRes>>
        ELSE Reject(p, slot, r)
  /\ UNCHANGED <<reports, page, pageInfl, sessionStartedRef,
                 timers, budget>>

\* this.startSession() of the retry settled
RetryStartReturn(p, slot, ok) ==
  /\ UNCHANGED otherVars
  /\ api[p][slot].pc = "start"
  /\ ok => CanStart(NoInfluencer)
  /\ sessions' = IF ok THEN StartSessions(NoInfluencer) ELSE sessions
  /\ LET r == StartResp(NoInfluencer, ok) IN
     IF r.status = 200 /\ r.history_id # NoId
     THEN /\ api' = [api EXCEPT ![p][slot].pc = "retry",
                                ![p][slot].posts = @ + 1,
                                ![p][slot].history_id = r.history_id]
          /\ UNCHANGED <<startEffect, currentHistoryId, userTurnCount,
                         hasAutoReportGenerated, isTyping, messages, send, diag,
                         chatRes, tally>>
     ELSE Reject(p, slot, api[p][slot].err)
  /\ UNCHANGED <<reports, page, pageInfl, sessionStartedRef,
                 timers, budget>>

RetryReturn_Again(p, slot, outcome) ==
  /\ UNCHANGED otherVars
  /\ api[p][slot].pc = "retry"
  /\ LET a == api[p][slot]
         r == AnalyzeResp(a.history_id, outcome)
     IN
     /\ sessions' = AnalyzeSessions(a.history_id, a.question, outcome)
     /\ IF r.status = 200 THEN Resolve(p, slot, r)
        ELSE IF IsSessionClosed(r)
        THEN /\ api' = [api EXCEPT ![p][slot].pc = "start",
                                   ![p][slot].starts = @ + 1]
             /\ UNCHANGED <<startEffect, currentHistoryId, userTurnCount,
                            hasAutoReportGenerated, isTyping, messages, send,
                            diag, chatRes, tally>>
        ELSE Reject(p, slot, a.err)
  /\ UNCHANGED <<reports, page, pageInfl, sessionStartedRef,
                 timers, budget>>

\* the retried POST settled
RetryReturn(p, slot, outcome) ==
  /\ UNCHANGED otherVars
  /\ api[p][slot].pc = "retry"
  /\ LET a == api[p][slot]
         r == AnalyzeResp(a.history_id, outcome)
     IN
     /\ sessions' = AnalyzeSessions(a.history_id, a.question, outcome)
     /\ IF r.status = 200 THEN Resolve(p, slot, r)
        ELSE Reject(p, slot, a.err)
  /\ UNCHANGED <<reports, page, pageInfl, sessionStartedRef,
                 timers, budget>>

\* ------------------------------------------------ POST /chatbot/report/save
\* ok: committed; fail: nothing committed; lost: committed, response timed out
SaveOutcomes == {"ok", "fail", "lost"}

Materialize_Overwrite(id, cycle) ==
  IF ReportsOf(id) = {}
  THEN Append(reports, [session |-> id, cycle |-> cycle,
                        user_turns |-> sessions[id].user_turns])
  ELSE [reports EXCEPT ![Min(ReportsOf(id))] =
          [session |-> id, cycle |-> cycle,
           user_turns |-> sessions[id].user_turns]]

\* materialize(session_id): a new report record
Materialize(id, cycle) ==
  Append(reports, [session |-> id, cycle |-> cycle,
                   user_turns |-> sessions[id].user_turns])

SaveCommits(id, outcome) == outcome # "fail" /\ sessions[id].status = "open"

AfterDiagnosis_OnlySaved(pending, saved) ==
  IF saved THEN Append(pending, "summary") ELSE pending

\* the try branch and the catch branch each end in a setTimeout(…, 1000)
AfterDiagnosis(pending, saved) ==
  IF saved THEN Append(pending, "summary") ELSE Append(pending, "summaryError")

TimerCallback_KeepFlag(bubble) ==
  IF bubble = "summary"
  THEN [userTurnCount |-> 0, hasAutoReportGenerated |-> FALSE]
  ELSE [userTurnCount |-> 0, hasAutoReportGenerated |-> TRUE]

\* what the callback of each branch sets
TimerCallback(bubble) ==
  IF bubble = "summary"
  THEN [userTurnCount |-> 0, hasAutoReportGenerated |-> FALSE]
  ELSE [userTurnCount |-> 0, hasAutoReportGenerated |-> FALSE]

\* analyzeChatForDiagnosis settled: the summary bubble and the reset of the
\* cycle are deferred by one second, then the finally block runs
DiagnosisReturn(p, outcome) ==
  /\ UNCHANGED otherVars
  /\ diag[p].pc = "post"
  /\ LET id == diag[p].history_id
         committed == SaveCommits(id, outcome)
     IN
     /\ reports' = IF committed THEN Materialize(id, diag[p].cycle) ELSE reports
     /\ sessions' = IF committed THEN ResetTurnCounter(sessions, id) ELSE sessions
     /\ timers' = SetState(timers, p,
                           AfterDiagnosis(timers[p], committed /\ outcome = "ok"))
     /\ tally' = SetState(tally, p,
                          [tally[p] EXCEPT
                             !.attempts = @ + 1,
                             !.commits = IF committed THEN @ + 1 ELSE @,
                             !.plain = @ /\ committed /\ outcome = "ok"])
  /\ isTyping' = SetState(isTyping, p, FALSE)
  /\ diag' = [diag EXCEPT ![p] = IdleDiag]
  /\ UNCHANGED <<page, pageInfl, sessionStartedRef, startEffect,
                 currentHistoryId, userTurnCount, hasAutoReportGenerated,
                 messages, api, send, chatRes, budget>>

\* the setTimeout callback of either branch
DeferredReset(p) ==
  /\ UNCHANGED otherVars
  /\ timers[p] # <<>>
  /\ timers' = [timers EXCEPT ![p] = Tail(@)]
  /\ messages' = SetState(messages, p, messages[p] + 1)
  /\ userTurnCount' =
       SetState(userTurnCount, p, TimerCallback(Head(timers[p])).userTurnCount)
  /\ hasAutoReportGenerated' =
       SetState(hasAutoReportGenerated, p,
                TimerCallback(Head(timers[p])).hasAutoReportGenerated)
  /\ tally' = SetState(tally, p, [tally[p] EXCEPT !.resets = @ + 1])
  /\ UNCHANGED <<sessions, reports, page, pageInfl, sessionStartedRef,
                 startEffect, currentHistoryId, isTyping, api,
                 send, diag, chatRes, budget>>

\* ---------------------------------------------------------- leaving the page
hasConversation(p) == messages[p] > 1

\* back button or blocked navigation: with a conversation the feedback modal
\* ends the session (POST /chatbot/end) before navigating; the tab may also
\* simply be closed. Unmounting destroys the component state; requests in
\* flight go on, and the callbacks of pending timers only call state setters
\* of the unmounted component, so they are dropped here.
Leave(p, endSession) ==
  /\ UNCHANGED otherVars
  /\ page[p] = "mounted"
  /\ endSession => hasConversation(p) /\ currentHistoryId[p] # NoId
  /\ sessions' = IF endSession THEN CloseSession(sessions, currentHistoryId[p])
                 ELSE sessions
  /\ page' = [page EXCEPT ![p] = "left"]
  /\ currentHistoryId' = [currentHistoryId EXCEPT ![p] = NoId]
  /\ userTurnCount' = [userTurnCount EXCEPT ![p] = 0]
  /\ hasAutoReportGenerated' = [hasAutoReportGenerated EXCEPT ![p] = FALSE]
  /\ isTyping' = [isTyping EXCEPT ![p] = FALSE]
  /\ messages' = [messages EXCEPT ![p] = 0]
  /\ timers' = [timers EXCEPT ![p] = <<>>]
  /\ chatRes' = [chatRes EXCEPT ![p] = FALSE]
  /\ tally' = [tally EXCEPT ![p] =
                  [NoTally EXCEPT
                     !.plain = FALSE,
                     !.reclosed =
                        /\ endSession
                        /\ sessions[currentHistoryId[p]].status = "closed"]]
  /\ UNCHANGED <<reports, pageInfl, sessionStartedRef, startEffect, api, send,
                 diag, budget>>

\* ------------------------------------------- influencer-history effect
RECURSIVE SortedSeq(_)
SortedSeq(S) ==
  IF S = {} THEN <<>> ELSE <<Min(S)>> \o SortedSeq(S \ {Min(S)})

RECURSIVE SumItems(_)
SumItems(S) ==
  IF S = {} THEN 0
  ELSE LET i == CHOOSE x \in S : TRUE IN sessions[i].items + SumItems(S \ {i})

\* the histories the server holds for an influencer
HistoriesOf(infl) ==
  {i \in SessionIds : sessions[i].status # "none" /\ sessions[i].infl = infl}

PayloadShapes == {"array", "object"}

InfluencerPayload(infl, shape) ==
  [shape |-> shape,
   items |-> History(SumItems(HistoriesOf(infl))),
   history_ids |-> IF shape = "object" THEN SortedSeq(HistoriesOf(infl))
                   ELSE <<>>]

\* the server answers GET /chatbot/history/influencer/{id}
InfluencerMessagesHandled(p, shape) ==
  /\ UNCHANGED <<sessions, reports, page, pageInfl, sessionStartedRef,
                 startEffect, currentHistoryId, userTurnCount,
                 hasAutoReportGenerated, isTyping, messages, api, send, diag,
                 timers, chatRes, tally, budget, activeInfluencerProfile,
                 item, rag, survey>>
  /\ inflEffect[p].pc = "get"
  /\ inflEffect' = [inflEffect EXCEPT
                      ![p].pc = "resp",
                      ![p].payload = InfluencerPayload(pageInfl[p], shape)]

getMessagesForInfluencer_Payload(payload, ok) ==
  IF ok THEN payload ELSE NoPayload

\* ChatbotApi.getMessagesForInfluencer: the normalized items as an array,
\* whatever the shape of the payload; [] when the request failed
getMessagesForInfluencer(payload, ok) ==
  IF ok THEN [shape |-> "array", items |-> payload.items, history_ids |-> <<>>]
  ELSE NoPayload

\* let historyIds = []; taken from resp only if resp is not an array
historyIds(resp) ==
  IF resp.shape = "array" THEN <<>> ELSE resp.history_ids

\* the effect's continuation: the loaded messages replace the bubbles, and
\* without a currentHistoryId, as the effect closed over it, the latest
\* history id is restored
InfluencerMessagesReturn(p, ok) ==
  /\ UNCHANGED <<rag, survey, activeInfluencerProfile, item>>
  /\ inflEffect[p].pc = "resp"
  /\ LET resp == getMessagesForInfluencer(inflEffect[p].payload, ok)
         ids == historyIds(resp)
     IN
     /\ messages' = SetState(messages, p, resp.items)
     /\ currentHistoryId' =
          IF inflEffect[p].currentHistoryId = NoId /\ Len(ids) > 0
          THEN SetState(currentHistoryId, p, ids[Len(ids)])
          ELSE currentHistoryId
  /\ inflEffect' = [inflEffect EXCEPT ![p].pc = "done",
                                      ![p].seen = currentHistoryId[p]]
  /\ UNCHANGED <<sessions, reports, page, pageInfl, sessionStartedRef,
                 startEffect, userTurnCount, hasAutoReportGenerated, isTyping,
                 api, send, diag, timers, chatRes, tally, budget>>

\* ------------------------------------ getMessagesForInfluencer, one item
\* !s || s.trim() === ''
IsBlank(s) == trim(s) = <<>>

\* a || b
Or(a, b) == IF a # <<>> THEN a ELSE b

\* out.raw: the raw object, else the text parsed when it starts with a brace
RawObj(m) ==
  IF m.raw.object THEN m.raw
  ELSE IF m.text.chars # <<>> /\ ~IsBlank(m.text.chars)
          /\ Head(trim(m.text.chars)) = "{" /\ m.text.parsed.object
  THEN m.text.parsed
  ELSE NoRaw

\* let finalText = out.text || ''; then the three replacements in turn
FinalText(m) ==
  LET rawObj == RawObj(m)
      infl == rawObj.influencer
      st == Or(infl.styled_text, Or(infl.description, infl.model_output))
      t1 == IF rawObj.object /\ infl.object /\ ~IsBlank(st)
            THEN st ELSE m.text.chars
      t2 == IF rawObj.object /\ IsBlank(t1) /\ ~IsBlank(rawObj.styled_text)
            THEN rawObj.styled_text ELSE t1
      t3 == IF rawObj.object /\ IsBlank(t2) /\ ~IsBlank(rawObj.description)
            THEN rawObj.description ELSE t2
  IN t3

\* rawItems.map(...): one item is normalized
NormalizeItem ==
  /\ UNCHANGED <<sessions, reports, page, pageInfl, sessionStartedRef,
                 startEffect, currentHistoryId, userTurnCount,
                 hasAutoReportGenerated, isTyping, messages, api, send, diag,
                 timers, chatRes, tally, budget, activeInfluencerProfile,
                 inflEffect, rag, survey>>
  /\ item.pc = "raw"
  /\ item' = [item EXCEPT !.pc = "done", !.out = FinalText(item)]

\* the normalization alone: no chat page is open
InitItem ==
  /\ InitCommon
  /\ pageInfl = [p \in Pages |-> NoInfluencer]
  /\ activeInfluencerProfile = [p \in Pages |-> FALSE]
  /\ sessions = [i \in SessionIds |-> NoSession]
  /\ page = [p \in Pages |-> "absent"]
  /\ budget = 0
  /\ rag = IdleRag
  /\ \E m \in RawItems :
       item = [IdleItem EXCEPT !.pc = "raw", !.text = m.text, !.raw = m.raw]

NextItem == NormalizeItem

\* ------------------------------------------------------- RAGSystem.query
chatVars == <<sessions, reports, page, pageInfl, sessionStartedRef,
              startEffect, currentHistoryId, userTurnCount,
              hasAutoReportGenerated, isTyping, messages, api, send, diag,
              timers, chatRes, tally, budget, activeInfluencerProfile,
              inflEffect, item>>

\* the service before it starts, with the request it will get: its route
\* and the behaviour of the two backends; a File Search query naming a store
\* the backend no longer has fails
RagRequests ==
  {r \in {[IdleRag EXCEPT !.pc = "boot", !.route = rt, !.immutable = i,
                          !.mutable = m, !.immutable_meta = im,
                          !.mutable_meta = mm, !.store = st] :
            rt \in Routes, i \in HandlerOutcomes, m \in HandlerOutcomes,
            im \in ImmutableMetas, mm \in MutableMetas, st \in StoreStates} :
     r.store = "stale" => r.immutable = "raise"}

\* _validate_store_name_format: only the format of the stored name
validate_store_name_format(store) == store # "malformed"

\* get_or_create_file_search_store at server start: stored metadata that
\* is not valid is deleted and the store created anew
get_or_create_file_search_store ==
  /\ UNCHANGED <<chatVars, survey>>
  /\ rag.pc = "boot"
  /\ rag' = IF validate_store_name_format(rag.store)
            THEN [rag EXCEPT !.pc = "route"]
            ELSE [rag EXCEPT !.pc = "route", !.rebuilt = TRUE]

\* dict.get(key, default)
Get(d, key, default) == IF key \in DOMAIN d THEN d[key] ELSE default

\* handler.query(...) when it succeeds
QueryResult(handler, metadata) == [answer |-> handler, metadata |-> metadata]

\* the routing engine dispatches on the route
RouteQuery ==
  /\ UNCHANGED <<chatVars, survey>>
  /\ rag.pc = "route"
  /\ rag' = [rag EXCEPT !.pc =
               IF rag.route = RouteGeneral THEN "general"
               ELSE IF rag.route = RouteImmutable THEN "immutable_only"
               ELSE IF rag.route = RouteMutable THEN "mutable_only"
               ELSE "immutable"]

\* Route 1: a basic response, no handler
HandleGeneral ==
  /\ UNCHANGED <<chatVars, survey>>
  /\ rag.pc = "general"
  /\ rag' = [rag EXCEPT !.pc = "done",
                        !.result = [kind |-> "answer", answer |-> {"general"},
                                    metadata |-> NoMeta]]

\* the answer of one handler alone
SingleResult(outcome, res) ==
  IF outcome = "ok"
  THEN {[kind |-> "answer", answer |-> {res.answer}, metadata |-> res.metadata]}
  ELSE {[kind |-> "error", answer |-> {}, metadata |-> NoMeta],
        [kind |-> "answer", answer |-> {}, metadata |-> NoMeta]}

\* Route 2: File Search only
HandleImmutable ==
  /\ UNCHANGED <<chatVars, survey>>
  /\ rag.pc = "immutable_only"
  /\ \E res \in SingleResult(rag.immutable,
                              QueryResult("immutable", rag.immutable_meta)) :
       rag' = [rag EXCEPT !.pc = "done",
                          !.invoked = @ \cup {"immutable"},
                          !.result = res]

\* Route 3: OpenAI RAG only
HandleMutable ==
  /\ UNCHANGED <<chatVars, survey>>
  /\ rag.pc = "mutable_only"
  /\ \E res \in SingleResult(rag.mutable,
                              QueryResult("mutable", rag.mutable_meta)) :
       rag' = [rag EXCEPT !.pc = "done",
                          !.invoked = @ \cup {"mutable"},
                          !.result = res]

\* _handle_combined, 1: immutable_result = self.immutable_handler.query(...)
CombinedImmutable ==
  /\ UNCHANGED <<chatVars, survey>>
  /\ rag.pc = "immutable"
  /\ rag' = IF rag.immutable = "ok"
            THEN [rag EXCEPT !.pc = "mutable",
                             !.invoked = @ \cup {"immutable"},
                             !.immutable_result =
                                QueryResult("immutable", rag.immutable_meta)]
            ELSE [rag EXCEPT !.pc = "fallback",
                             !.invoked = @ \cup {"immutable"}]

\* _handle_combined, 2: mutable_result = self.mutable_handler.query(...)
CombinedMutable ==
  /\ UNCHANGED <<chatVars, survey>>
  /\ rag.pc = "mutable"
  /\ rag' = IF rag.mutable = "ok"
            THEN [rag EXCEPT !.pc = "merge",
                             !.invoked = @ \cup {"mutable"},
                             !.mutable_result =
                                QueryResult("mutable", rag.mutable_meta)]
            ELSE [rag EXCEPT !.pc = "fallback",
                             !.invoked = @ \cup {"mutable"}]

\* _handle_combined, 3: the files_used of both sides, with defaults
immutable_files(immutable_result) ==
  Get(immutable_result.metadata, "files_used", 1)

mutable_files(mutable_result) ==
  Get(mutable_result.metadata, "files_used", 0)

\* _handle_combined, 4: both answers under their headings
combined_answer(immutable_result, mutable_result) ==
  {immutable_result.answer, mutable_result.answer}

CombinedMerge ==
  /\ UNCHANGED <<chatVars, survey>>
  /\ rag.pc = "merge"
  /\ rag' = [rag EXCEPT
               !.pc = "done",
               !.result =
                  [kind |-> "answer",
                   answer |-> combined_answer(rag.immutable_result,
                                              rag.mutable_result),
                   metadata |->
                     [source |-> "combined",
                      files_used |-> immutable_files(rag.immutable_result)
                                       + mutable_files(rag.mutable_result)]]]

FallbackResult_Raises(r) ==
  {[kind |-> "error", answer |-> {}, metadata |-> NoMeta]}

\* error handling of _handle_combined: whichever side failed, the fallback
\* is the immutable knowledge alone
FallbackResult(r) ==
  SingleResult(r.immutable, QueryResult("immutable", r.immutable_meta))

CombinedFallback ==
  /\ UNCHANGED <<chatVars, survey>>
  /\ rag.pc = "fallback"
  /\ \E res \in FallbackResult(rag) :
       rag' = [rag EXCEPT !.pc = "done", !.result = res]

\* a run of the RAG service alone: no chat page is open
InitRag ==
  /\ InitCommon
  /\ activeInfluencerProfile = [p \in Pages |-> FALSE]
  /\ item = IdleItem
  /\ pageInfl = [p \in Pages |-> NoInfluencer]
  /\ sessions = [i \in SessionIds |-> NoSession]
  /\ page = [p \in Pages |-> "absent"]
  /\ budget = 0
  /\ rag \in RagRequests

NextRag ==
  \/ get_or_create_file_search_store
  \/ RouteQuery
  \/ HandleGeneral
  \/ HandleImmutable
  \/ HandleMutable
  \/ CombinedImmutable
  \/ CombinedMutable
  \/ CombinedMerge
  \/ CombinedFallback

\* ------------------------------------------------- materialize_from_survey
Max(S) == CHOOSE x \in S : \A y \in S : x >= y

\* the scores of the option a question was answered with
OptionScores(q, id) == (CHOOSE o \in Options(q) : o.id = id).scores

\* total score of a season: summed across all answered questions
RECURSIVE SumScores(_, _, _)
SumScores(answers, season, qs) ==
  IF qs = {} THEN 0
  ELSE LET q == CHOOSE x \in qs : TRUE
       IN OptionScores(q, answers[q])[season]
            + SumScores(answers, season, qs \ {q})

TotalScore(answers, season) == SumScores(answers, season, DOMAIN answers)

\* the highest total a season can reach: the best option of every question
RECURSIVE SumBest(_)
SumBest(qs) ==
  IF qs = {} THEN 0
  ELSE LET q == CHOOSE x \in qs : TRUE
       IN Max({o.scores[s] : o \in Options(q), s \in Seasons})
            + SumBest(qs \ {q})

MaxPossibleScore_Scale == 3 * Len(PERSONAL_COLOR_QUESTIONS)

MaxPossibleScore == SumBest(QuestionIds)

\* the seasons with the highest total
TopSeasons(answers) ==
  {s \in Seasons :
     \A t \in Seasons : TotalScore(answers, s) >= TotalScore(answers, t)}

\* the fixed priority order that breaks ties
SeasonPriority == <<"spring", "summer", "autumn", "winter">>

Rank(season) == CHOOSE i \in 1..Len(SeasonPriority) : SeasonPriority[i] = season

ResultTones_AnyTop(answers) == TopSeasons(answers)

\* the season with the highest total, ties broken by the priority order
ResultTones(answers) ==
  {s \in TopSeasons(answers) :
     \A t \in TopSeasons(answers) : Rank(s) <= Rank(t)}

\* confidence: the result season's share of the maximum possible score,
\* kept as the fraction num / den
materialize_from_survey(answers) ==
  {[answers |-> answers,
    result_tone |-> s,
    total_score |-> TotalScore(answers, s),
    confidence |-> [num |-> TotalScore(answers, s),
                    den |-> MaxPossibleScore]] :
     s \in ResultTones(answers)}

\* the test page: the user picks an option of the next question
SelectOption(q, id) ==
  /\ UNCHANGED <<chatVars, rag>>
  /\ survey.results = <<>>
  /\ q = Len(survey.answers) + 1
  /\ id \in OptionIds(q)
  /\ survey' = [survey EXCEPT !.answers = Append(@, id)]

\* SurveyApi.submitSurvey: POST /survey/submit with all answers
submitSurvey ==
  /\ UNCHANGED <<chatVars, rag>>
  /\ DOMAIN survey.answers = QuestionIds
  /\ Len(survey.results) < MaxSubmissions
  /\ \E res \in materialize_from_survey(survey.answers) :
       survey' = [survey EXCEPT !.results = Append(@, res)]

\* a run of the personal-color test alone: no chat page is open
InitSurvey ==
  /\ InitCommon
  /\ activeInfluencerProfile = [p \in Pages |-> FALSE]
  /\ item = IdleItem
  /\ pageInfl = [p \in Pages |-> NoInfluencer]
  /\ sessions = [i \in SessionIds |-> NoSession]
  /\ page = [p \in Pages |-> "absent"]
  /\ budget = 0
  /\ rag = IdleRag

NextSurvey ==
  \/ \E q \in QuestionIds : \E id \in OptionIds(q) : SelectOption(q, id)
  \/ submitSurvey

\* ------------------------------------------------------------ specification
Next ==
  \/ \E p \in Pages : MountPage(p)
  \/ \E p \in Pages, ok \in BOOLEAN : StartReturn(p, ok)
  \/ \E p \in Pages, ok \in BOOLEAN : HistoryReturn(p, ok)
  \/ \E p \in Pages, text \in Inputs : handleSendMessage(p, text)
  \/ \E p \in Pages, slot \in Slots, o \in AnalyzeOutcomes : AnalyzeReturn(p, slot, o)
  \/ \E p \in Pages, slot \in Slots, ok \in BOOLEAN : RetryStartReturn(p, slot, ok)
  \/ \E p \in Pages, slot \in Slots, o \in AnalyzeOutcomes : RetryReturn(p, slot, o)
  \/ \E p \in Pages, o \in SaveOutcomes : DiagnosisReturn(p, o)
  \/ \E p \in Pages : DeferredReset(p)
  \/ \E p \in Pages, e \in BOOLEAN : Leave(p, e)

Spec == Init /\ [][Next]_vars

SpecPair == InitPair /\ [][Next]_vars

SpecOne == InitOne /\ [][Next]_vars

SpecRag == InitRag /\ [][NextRag]_vars

SpecSurvey == InitSurvey /\ [][NextSurvey]_vars

\* a tab opened from a profile card: the router state carries the influencer
\* profile, and the user has an earlier history with that influencer
InitInfl ==
  /\ InitCommon
  /\ pageInfl = [p \in Pages |-> IF p = 1 THEN "infl" ELSE NoInfluencer]
  /\ activeInfluencerProfile = [p \in Pages |-> p = 1]
  /\ item = IdleItem
  /\ rag = IdleRag
  /\ \E n \in 0..MaxInitTurns, st \in {"open", "closed"} :
       sessions = [i \in SessionIds |->
                     IF i = 1
                     THEN [EarlierSession("infl", n) EXCEPT !.status = st]
                     ELSE NoSession]
  /\ page = [p \in Pages |-> IF p = 1 THEN "unopened" ELSE "absent"]
  /\ budget = MaxTurns

NextInfl ==
  \/ Next
  \/ \E p \in Pages, shape \in PayloadShapes : InfluencerMessagesHandled(p, shape)
  \/ \E p \in Pages, ok \in BOOLEAN : InfluencerMessagesReturn(p, ok)

SpecInfl == InitInfl /\ [][NextInfl]_vars

SpecItem == InitItem /\ [][NextItem]_vars

\* ================================================================== claims
Mounted(p) == page[p] = "mounted"

\* no request, effect or timer of the tab is outstanding
Quiet(p) ==
  /\ ~isBusy(p)
  /\ api[p]["send"].pc = "idle"
  /\ startEffect[p].pc = "idle"
  /\ timers[p] = <<>>

\* the step in which tab p's handleSendMessage got its analyze response
SendResolved(p) == tally'[p].turns = tally[p].turns + 1

\* the step in which a deferred reset of tab p ran
ResetRan(p) == tally'[p].resets = tally[p].resets + 1

\* C1: the Diagnosis Trigger fires at most once per diagnosis cycle, also when
\* several turn submissions for one session are in flight at user_turns = 2:
\* no two reports are materialized for turns of the same cycle of a session.
C1_OncePerCycle ==
  \A i, j \in 1..Len(reports) :
    (reports[i].session = reports[j].session /\ reports[i].cycle = reports[j].cycle)
      => i = j

C3_FiresAtOrAfterThreshold ==
  [][\A p \in Pages :
       (/\ SendResolved(p)
        /\ chatRes'[p]
        /\ NewTurnCount(send[p].userTurnCount) >= Threshold
        /\ ~send[p].hasAutoReportGenerated)
         => diag'[p].pc = "post"]_vars

\* C4: the flag and the turn counter are reset only together: a step that
\* clears the flag sets the counter to 0, a step that takes the counter back
\* to 0 leaves the flag clear, and while the flag is set its reset is under
\* way (the save is in flight or the deferred reset is pending).
C4_CoupledReset ==
  [][\A p \in Pages :
       (Mounted(p) /\ page'[p] = "mounted")
         => /\ (hasAutoReportGenerated[p] /\ ~hasAutoReportGenerated'[p])
                 => userTurnCount'[p] = 0
            /\ (userTurnCount[p] # 0 /\ userTurnCount'[p] = 0)
                 => ~hasAutoReportGenerated'[p]]_vars

\* C5: a failed report materialization is retryable on a later turn: the flag
\* is never left set once the attempt is over, it is set only while the save
\* is in flight or the deferred reset is pending.
C5_FlagNeverStuck ==
  \A p \in Pages :
    (Mounted(p) /\ hasAutoReportGenerated[p])
      => (diag[p].pc = "post" \/ timers[p] # <<>>)

C5_Witness ==
  \E p \in Pages :
    /\ Mounted(p)
    /\ tally[p].attempts = 1
    /\ tally[p].commits = 0
    /\ tally[p].resets = 1
    /\ tally[p].fires = 2
    /\ diag[p].pc = "post"

C7_NoPayloadNoFire ==
  [][\A p \in Pages :
       (/\ SendResolved(p)
        /\ ~chatRes'[p]
        /\ NewTurnCount(send[p].userTurnCount) = Threshold)
         => /\ hasAutoReportGenerated'[p] = hasAutoReportGenerated[p]
            /\ diag'[p] = diag[p]
            /\ tally'[p].fires = tally[p].fires]_vars

C7_Witness ==
  \E p \in Pages :
    /\ Mounted(p)
    /\ userTurnCount[p] = Threshold
    /\ tally[p].turns = Threshold
    /\ ~chatRes[p]
    /\ ~hasAutoReportGenerated[p]
    /\ tally[p].fires = 0
    /\ diag[p].pc = "idle"
    /\ api[p]["send"].pc = "idle"

\* C8: every successful append of a non-empty user text raises the turn
\* counter by exactly 1, and the counter never decreases except through the
\* diagnosis reset.
C8_StepByOne ==
  [][\A p \in Pages :
       (Mounted(p) /\ page'[p] = "mounted")
         => /\ SendResolved(p) => userTurnCount'[p] = userTurnCount[p] + 1
            /\ userTurnCount'[p] < userTurnCount[p] => ResetRan(p)]_vars

\* C9: the turn counter is incremented only by turns whose user text is
\* non-empty: the welcome turn and blank input never change it. The counter
\* of a tab grows only when a sent non-empty text is answered, or when the
\* session-start effect restores the count of a reused session.
C9_OnlyNonEmptyText ==
  [][\A p \in Pages :
       (Mounted(p) /\ page'[p] = "mounted" /\ userTurnCount'[p] > userTurnCount[p])
         => \/ startEffect[p].pc = "start" /\ startEffect'[p].pc = "history"
            \/ /\ SendResolved(p)
               /\ api[p]["send"].question # <<>>
               /\ api[p]["welcome"] = api'[p]["welcome"]]_vars

C9_Witness ==
  \E p \in Pages :
    /\ Mounted(p)
    /\ currentHistoryId[p] # NoId
    /\ messages[p] = 1
    /\ startEffect[p].pc = "idle"
    /\ sessions[currentHistoryId[p]].items = 1
    /\ sessions[currentHistoryId[p]].user_turns = 0
    /\ userTurnCount[p] = 0

StartResolved(p) ==
  /\ Mounted(p)
  /\ startEffect[p].pc = "start"
  /\ startEffect'[p].pc \in {"history", "welcome"}

C12_ClosedIsTerminal ==
  [][/\ \A i \in SessionIds :
          sessions[i].status = "closed" => sessions'[i] = sessions[i]
     /\ \A p \in Pages :
          (/\ api[p]["send"].pc \in {"post", "retry"}
           /\ api[p]["send"].history_id # NoId
           /\ sessions[api[p]["send"].history_id].status = "closed")
            => ~SendResolved(p)]_vars

C12_Witness ==
  \E p \in Pages :
    /\ Mounted(p)
    /\ api[p]["send"].pc = "start"
    /\ api[p]["send"].err.status = 400
    /\ api[p]["send"].err.closed
    /\ sessions[api[p]["send"].history_id].status = "closed"
    /\ sessions[api[p]["send"].history_id].items > 0

C14_RetryOnce ==
  [][\A p \in Pages, slot \in Slots :
       LET a == api[p][slot]
           b == api'[p][slot]
       IN
       /\ b.posts <= 2
       /\ b.starts <= 1
       /\ b.starts > a.starts
            => /\ a.pc = "post"
               /\ a.history_id # NoId
               /\ sessions[a.history_id].status = "closed"
               /\ b.question = a.question
       /\ b.posts > a.posts /\ a.posts > 0
            => /\ a.pc = "start"
               /\ b.question = a.question
               /\ b.history_id # a.history_id
               /\ sessions'[b.history_id].status = "open"]_vars

C14_Witness ==
  \E p \in Pages :
    /\ api[p]["send"].pc = "retry"
    /\ api[p]["send"].posts = 2
    /\ api[p]["send"].starts = 1
    /\ api[p]["send"].question # <<>>
    /\ sessions[api[p]["send"].history_id].status = "open"
    /\ Mounted(p)
    /\ sessions[currentHistoryId[p]].status = "closed"

\* the step in which tab p's handleSendMessage ended in its catch block
SendRejected(p) ==
  /\ Mounted(p)
  /\ api[p]["send"].pc # "idle"
  /\ api'[p]["send"].pc = "idle"
  /\ ~SendResolved(p)

C16_ResumesFromK ==
  [][\A p \in Pages :
       (SendResolved(p) /\ tally[p].due > 0)
         => ((tally[p].due = 1 /\ chatRes'[p])
               <=> tally'[p].fires = tally[p].fires + 1)]_vars

\* C17: a report is never overwritten: every step leaves the reports created
\* so far unchanged, and a diagnosis save that commits adds one new record
\* with a new id.
C17_ReportsAppendOnly ==
  [][/\ Len(reports') >= Len(reports)
     /\ \A i \in 1..Len(reports) : reports'[i] = reports[i]
     /\ \A p \in Pages :
          (Mounted(p) /\ tally'[p].commits = tally[p].commits + 1)
            => Len(reports') = Len(reports) + 1]_vars

C17_Witness ==
  \E p \in Pages :
    /\ Mounted(p)
    /\ tally[p].commits = 2
    /\ Len(reports) = 2
    /\ reports[1].session = reports[2].session
    /\ reports[1].cycle # reports[2].cycle

\* a request on the combined route has been answered or has failed
CombinedDone == rag.pc = "done" /\ rag.route = RouteCombined

\* C18: on the combined route both handlers are invoked for every query,
\* neither is silently skipped.
C18_BothInvoked ==
  CombinedDone => rag.invoked = {"immutable", "mutable"}

\* C19: on the combined route, when the Mutable Handler raises while the
\* Immutable Handler succeeds, the call does not raise and the answer's
\* metadata marks the source as immutable-only.
C19_MutableFailureDegrades ==
  (CombinedDone /\ rag.immutable = "ok" /\ rag.mutable = "raise")
    => /\ rag.result.kind = "answer"
       /\ rag.result.answer = {"immutable"}
       /\ rag.result.metadata.source = "file_search"

C19_Witness ==
  /\ CombinedDone
  /\ rag.immutable = "ok" /\ rag.mutable = "raise"
  /\ rag.invoked = {"immutable", "mutable"}
  /\ rag.result.kind = "answer"
  /\ rag.result.metadata = rag.immutable_meta

\* C20: on the combined route, when the Immutable Handler errors while the
\* Mutable Handler succeeds, the request does not fail, the answer is the
\* Mutable Handler's alone and the metadata says only the mutable source
\* contributed.
C20_ImmutableFailureDegrades ==
  (CombinedDone /\ rag.immutable = "raise" /\ rag.mutable = "ok")
    => /\ rag.result.kind = "answer"
       /\ rag.result.answer = {"mutable"}
       /\ rag.result.metadata.source = "trend"

\* C21: on the combined route, when both handlers error, the request fails
\* with an error and no answer is returned.
C21_BothFailUnavailable ==
  (CombinedDone /\ rag.immutable = "raise" /\ rag.mutable = "raise")
    => /\ rag.result.kind = "error"
       /\ rag.result.answer = {}

\* every answer is the option with the highest autumn score of its question
AllAutumn(answers) ==
  /\ DOMAIN answers = QuestionIds
  /\ \A q \in QuestionIds :
       \A o \in Options(q) :
         OptionScores(q, answers[q]).autumn >= o.scores.autumn

C23_AllAutumn ==
  \A i \in 1..Len(survey.results) :
    AllAutumn(survey.results[i].answers)
      => /\ survey.results[i].result_tone = "autumn"
         /\ survey.results[i].confidence.num
              = survey.results[i].confidence.den

C23_Witness ==
  /\ Len(survey.results) >= 1
  /\ AllAutumn(survey.results[1].answers)
  /\ survey.results[1].result_tone = "autumn"
  /\ survey.results[1].total_score = MaxPossibleScore

\* C24: when the stored File Search store reference is stale or invalid and
\* a query for the immutable knowledge arrives, the store has been rebuilt
\* and the query is answered from it; no error surfaces.
C24_StaleStoreRebuilt ==
  (/\ rag.pc = "done"
   /\ rag.route = RouteImmutable
   /\ \/ rag.store = "stale"
      \/ rag.store = "malformed" /\ rag.immutable = "ok")
    => /\ rag.rebuilt
       /\ rag.result.kind = "answer"
       /\ rag.result.answer = {"immutable"}

\* C25: a message sent while a deferred reset is pending does not disturb
\* the new cycle: whichever of the deferred reset and the message's analyze
\* response comes last, after it userTurnCount is 1 and
\* hasAutoReportGenerated is false.
C25_WindowSendStartsCycle ==
  [][\A p \in Pages :
       (/\ Mounted(p) /\ page'[p] = "mounted"
        /\ \/ tally[p].windowed = "sent" /\ SendResolved(p)
           \/ tally[p].windowed = "answered" /\ ResetRan(p)
        /\ timers'[p] = <<>>
        /\ api'[p]["send"].pc = "idle")
         => /\ userTurnCount'[p] = 1
            /\ ~hasAutoReportGenerated'[p]]_vars

\* the step in which tab p's trigger fired
TriggerFired(p) == tally'[p].fires = tally[p].fires + 1

\* C26: whenever no request, effect or timer of a tab is outstanding, its
\* userTurnCount equals the user turns the server holds for the session
\* named by its currentHistoryId, and whenever the trigger fires, the session
\* the report save targets holds Threshold user turns.
C26_CountMatchesServer ==
  [][\A p \in Pages :
       /\ (Mounted(p)' /\ Quiet(p)' /\ currentHistoryId'[p] # NoId)
            => userTurnCount'[p] = sessions'[currentHistoryId'[p]].user_turns
       /\ TriggerFired(p)
            => sessions'[diag'[p].history_id].user_turns = Threshold]_vars

\* C27: when analyze recovers from a session-closed error, the replacement
\* session is started for the same influencer as the session it replaces.
C27_RetrySameInfluencer ==
  [][\A p \in Pages, slot \in Slots :
       (api[p][slot].pc = "start" /\ api'[p][slot].pc = "retry")
         => sessions'[api'[p][slot].history_id].infl
              = sessions[api[p][slot].history_id].infl]_vars

\* C28: whenever analyze rejects, it rejects with the error of the first
\* POST, also when startSession or the retried POST is what failed;
\* startSession is called, and the POST repeated, only after a first error
\* that is HTTP 400 with the session-already-ended detail; every other
\* failure of the first POST is rethrown at once.
C28_RejectsWithFirstError ==
  [][\A p \in Pages, slot \in Slots :
       LET a == api[p][slot]
           b == api'[p][slot]
       IN
       /\ b.starts > a.starts
            => a.pc = "post" /\ b.err.status = 400 /\ b.err.closed
       /\ b.posts > a.posts /\ a.posts > 0
            => a.err.status = 400 /\ a.err.closed
       /\ a.pc \in {"start", "retry"} => b.err = a.err \/ b.pc = "idle"
       /\ (slot = "send" /\ SendRejected(p))
            => /\ a.pc \in {"start", "retry"}
                    => tally'[p].status = a.err.status
               /\ a.pc = "post"
                    => \E o \in AnalyzeOutcomes :
                         LET r == AnalyzeResp(a.history_id, o) IN
                         /\ tally'[p].status = r.status
                         /\ r.status # 200
                         /\ ~(r.status = 400 /\ r.closed)]_vars

C28_Witness ==
  \E p \in Pages :
    /\ Mounted(p)
    /\ api[p]["send"].pc = "idle"
    /\ tally[p].status = 400
    /\ currentHistoryId[p] # NoId
    /\ sessions[currentHistoryId[p]].status = "closed"

\* C29: once startSession has resolved and set the tab's currentHistoryId,
\* the influencer-history effect does not replace it, also when its response
\* arrives after that of startSession.
C29_EffectKeepsHistoryId ==
  [][\A p \in Pages :
       (/\ inflEffect[p].pc = "resp" /\ inflEffect'[p].pc = "done"
        /\ currentHistoryId[p] # NoId)
         => currentHistoryId'[p] = currentHistoryId[p]]_vars

C29_Witness ==
  \E p \in Pages :
    /\ Mounted(p)
    /\ inflEffect[p].pc = "done"
    /\ inflEffect[p].seen # NoId
    /\ inflEffect[p].currentHistoryId = NoId
    /\ inflEffect[p].payload.shape = "object"
    /\ Len(inflEffect[p].payload.history_ids) > 0
    /\ inflEffect[p].payload.history_ids[Len(inflEffect[p].payload.history_ids)]
         # inflEffect[p].seen
    /\ currentHistoryId[p] = inflEffect[p].seen

\* C30: getMessagesForInfluencer sets an item's text by the preference
\* order influencer.styled_text, raw.styled_text, raw.description, existing
\* text: a higher field that is a non-blank string is chosen over every lower
\* one, also over a non-blank existing text.
C30_TextPreference ==
  item.pc = "done"
    => LET rawObj == RawObj(item)
           infl == rawObj.influencer
       IN
       /\ (infl.object /\ ~IsBlank(infl.styled_text))
            => item.out = infl.styled_text
       /\ (/\ ~(infl.object /\ ~IsBlank(infl.styled_text))
           /\ rawObj.object /\ ~IsBlank(rawObj.styled_text))
            => item.out = rawObj.styled_text
       /\ (/\ ~(infl.object /\ ~IsBlank(infl.styled_text))
           /\ rawObj.object /\ IsBlank(rawObj.styled_text)
           /\ ~IsBlank(rawObj.description))
            => item.out = rawObj.description

====
